---- MODULE Spec2Model ----
(***************************************************************************)
(* Model of the paste engine of r_tools (r_tools/tools/paste_chunks.py):   *)
(* file selection, binary check, blank-line policy, block rendering with   *)
(* optional splitting, first-fit packing and the paste_NN / index writer.  *)
(*                                                                         *)
(* Text is a sequence of characters.  File content is ASCII, so the UTF-8  *)
(* encoding of a text is the same sequence, one byte per character.        *)
(* A relative path is the sequence of the code points of its POSIX string. *)
(***************************************************************************)
EXTENDS Integers, Sequences, FiniteSets, TLC

VARIABLES
    cfg,               \* the configuration of the run (cfg dict + list_only)
    root,              \* what project_root is on disk: "dir", "missing", "file"
    tree,              \* the files under project_root: rel path -> file
    out,               \* the output directory on disk
    pc,                \* position of run_paste
    files,             \* result of _gather_files
    fi,                \* index of the file the render loop is at
    items,             \* list[PasteItem]
    total_item_lines,  \* sum of the block lines of items
    capacity,          \* capacity handed to _first_fit_pack
    pi,                \* index of the item the pack loop is at
    buckets,           \* list[list[PasteItem]]
    used,              \* list[int], the packer's running totals
    wi,                \* index of the bucket the write loop is at
    written,           \* list of (paste number, lines)
    index_sections,    \* list of list of (display, code_lines)
    stdout,            \* what the run printed
    run,               \* number of the run in progress
    prev,              \* the output directory as the previous run left it
    ctree0,            \* clean: the project tree before the first call
    ctree,             \* clean: the project tree
    ccfg,              \* clean: the configuration
    cpc,               \* clean: position of run_clean
    cdirs,             \* clean: dirs of _gather_targets
    cfiles,            \* clean: files of _gather_targets
    cdry,              \* clean: dry_run of the call
    conly,             \* clean: only of the call
    ccalls             \* clean: number of finished calls of run_clean

cleanv == <<ctree0, ctree, ccfg, cpc, cdirs, cfiles, cdry, conly, ccalls>>

pastev == <<cfg, root, tree, out, pc, files, fi, items, total_item_lines,
            capacity, pi, buckets, used, wi, written, index_sections, stdout,
            run, prev>>

vars == <<cfg, root, tree, out, pc, files, fi, items, total_item_lines,
          capacity, pi, buckets, used, wi, written, index_sections, stdout,
          run, prev, cleanv>>

(***************************************************************************)
(* Bounds of the model.                                                    *)
(***************************************************************************)
MaxLen == 3          \* longest file content, in bytes, of the one-file runs
MaxFileLines == 3    \* most lines of a small file of the several-file runs
BigFileLines == 13   \* lines of the one large file of the several-file runs
MaxCalls == 2        \* most calls of run_clean in a row

(***************************************************************************)
(* Characters.                                                             *)
(***************************************************************************)
LF == "LF"      \* \n
CR == "CR"      \* \r
FF == "FF"      \* \x0c, form feed: a line boundary of str.splitlines
SP == "SP"      \* space
NUL == "NUL"    \* \x00
Byte == {"a", SP, LF, CR, FF, NUL}

\* the characters str.splitlines treats as line boundaries
LineBoundary == {LF, CR, FF}
\* the characters str.strip removes
Whitespace == {SP, LF, CR, FF}

None == "None"

(***************************************************************************)
(* Sequence helpers.                                                       *)
(***************************************************************************)
Range(s) == {s[i] : i \in 1..Len(s)}

RECURSIVE SumSeq(_)
SumSeq(s) == IF s = <<>> THEN 0 ELSE Head(s) + SumSeq(Tail(s))

RECURSIVE Flatten(_)
Flatten(ss) == IF ss = <<>> THEN <<>> ELSE Head(ss) \o Flatten(Tail(ss))

Max(a, b) == IF a >= b THEN a ELSE b
Min(a, b) == IF a <= b THEN a ELSE b
CeilDiv(a, b) == (a + b - 1) \div b

\* str.count("\n")
CountLF(t) == Cardinality({i \in 1..Len(t) : t[i] = LF})

\* str.endswith("\n")
EndsWithLF(t) == t # <<>> /\ t[Len(t)] = LF

\* all sequences over S of length at most n
SeqsUpTo(S, n) == UNION {[1..k -> S] : k \in 0..n}

(***************************************************************************)
(* Text primitives of Python that the engine uses.                         *)
(***************************************************************************)
\* open(..., "r") with newline=None: "\r\n" and "\r" are read as "\n".
\* kept are the positions that are not the "\n" of a "\r\n"
UniversalNewlines(b) ==
    LET kept == SelectSeq([i \in 1..Len(b) |-> i],
                          LAMBDA i : ~(b[i] = LF /\ i > 1 /\ b[i - 1] = CR))
    IN  [k \in 1..Len(kept) |-> IF b[kept[k]] = CR THEN LF ELSE b[kept[k]]]

\* str.splitlines(keepends=True)
RECURSIVE splitlines_keepends(_)
splitlines_keepends(t) ==
    IF t = <<>> THEN <<>>
    ELSE LET B == {i \in 1..Len(t) : t[i] \in LineBoundary}
         IN  IF B = {} THEN <<t>>
             ELSE LET i == CHOOSE j \in B : \A k \in B : j <= k
                      e == IF t[i] = CR /\ i < Len(t) /\ t[i + 1] = LF
                           THEN i + 1 ELSE i
                  IN  <<SubSeq(t, 1, e)>> \o
                      splitlines_keepends(SubSeq(t, e + 1, Len(t)))

\* a line of splitlines_keepends without its terminator
StripTerminator(l) ==
    IF l # <<>> /\ l[Len(l)] \in LineBoundary
    THEN IF Len(l) >= 2 /\ l[Len(l)] = LF /\ l[Len(l) - 1] = CR
         THEN SubSeq(l, 1, Len(l) - 2)
         ELSE SubSeq(l, 1, Len(l) - 1)
    ELSE l

\* str.splitlines()
splitlines(t) ==
    LET ls == splitlines_keepends(t)
    IN  [i \in 1..Len(ls) |-> StripTerminator(ls[i])]

\* "\n".join(lines)
RECURSIVE JoinLF(_)
JoinLF(lines) ==
    IF lines = <<>> THEN <<>>
    ELSE IF Len(lines) = 1 THEN lines[1]
    ELSE lines[1] \o <<LF>> \o JoinLF(Tail(lines))

\* ln.strip() == ""
IsBlank(ln) == \A i \in 1..Len(ln) : ln[i] \in Whitespace

\* hashlib.sha256(b).hexdigest(): a digest identifies the bytes it was taken of
_sha256_bytes(b) == <<"sha256", b>>

(***************************************************************************)
(* Files of the project tree: [bytes, readable].                           *)
(***************************************************************************)
BinaryWindow == 4096

\* _read_text: the decoded text (the line count it also returns is unused)
_read_text(f) == UniversalNewlines(f.bytes)

\* a check that looks at the first byte only
_is_binary_FirstByteOnly(f) ==
    IF ~f.readable THEN TRUE
    ELSE f.bytes # <<>> /\ f.bytes[1] = NUL

\* _is_binary: a read failure counts as binary
_is_binary(f) ==
    IF ~f.readable THEN TRUE
    ELSE NUL \in Range(SubSeq(f.bytes, 1, Min(Len(f.bytes), BinaryWindow)))

(***************************************************************************)
(* Blank-line policy and the trailing newline (run_paste, lines 310-333).  *)
(***************************************************************************)
DropBlank(lines) == SelectSeq(lines, LAMBDA ln : ~IsBlank(ln))

\* a collapse that lets two blank lines of a run stand
RECURSIVE CollapseBlank_KeepsTwo(_, _)
CollapseBlank_KeepsTwo(lines, blank_streak) ==
    IF lines = <<>> THEN <<>>
    ELSE IF IsBlank(Head(lines))
         THEN (IF blank_streak + 1 <= 2 THEN <<<<>>>> ELSE <<>>) \o
              CollapseBlank_KeepsTwo(Tail(lines), blank_streak + 1)
         ELSE <<Head(lines)>> \o CollapseBlank_KeepsTwo(Tail(lines), 0)

RECURSIVE CollapseBlank(_, _)
CollapseBlank(lines, blank_streak) ==
    IF lines = <<>> THEN <<>>
    ELSE IF IsBlank(Head(lines))
         THEN (IF blank_streak + 1 <= 1 THEN <<<<>>>> ELSE <<>>) \o
              CollapseBlank(Tail(lines), blank_streak + 1)
         ELSE <<Head(lines)>> \o CollapseBlank(Tail(lines), 0)

EnsureNewline(text) == IF EndsWithLF(text) THEN text ELSE text \o <<LF>>

\* the text of a file after the blank-line policy, newline-terminated
PolicyText(text, blank_policy) ==
    EnsureNewline(
        IF blank_policy = "drop" THEN JoinLF(DropBlank(splitlines(text)))
        ELSE IF blank_policy = "collapse"
             THEN JoinLF(CollapseBlank(splitlines(text), 0))
             ELSE text)

(***************************************************************************)
(* Block rendering (run_paste, lines 335-379).  A rendered block is its    *)
(* header lines, its code text and its footer lines; every header and      *)
(* footer line ends in one "\n".                                           *)
(***************************************************************************)
Footer == <<[key |-> "----- END CODE -----", val |-> None],
            [key |-> "===== END FILE =====", val |-> None]>>

Header(rel, total_lines, lines, ci, total_chunks, sha) ==
    <<[key |-> "===== BEGIN FILE =====", val |-> None],
      [key |-> "PATH", val |-> rel],
      [key |-> "TOTAL_LINES", val |-> total_lines],
      [key |-> "LINES", val |-> lines],
      [key |-> "CHUNK", val |-> <<ci, total_chunks>>],
      [key |-> "SHA256", val |-> sha],
      [key |-> "----- BEGIN CODE -----", val |-> None]>>

\* rendered.count("\n")
RenderedLines(rendered) ==
    Len(rendered.header) + CountLF(rendered.code) + Len(rendered.footer)

PasteItem(rel, rendered) ==
    [rel_path |-> rel, rendered |-> rendered, lines |-> RenderedLines(rendered)]

\* the successive slices lines_with_end[i:i+n] joined
RECURSIVE Chunks(_, _)
Chunks(lines_with_end, n) ==
    IF lines_with_end = <<>> THEN <<>>
    ELSE <<Flatten(SubSeq(lines_with_end, 1, Min(n, Len(lines_with_end))))>> \o
         Chunks(SubSeq(lines_with_end, n + 1, Len(lines_with_end)), n)

\* a renderer that takes the digest before the chunk gets its newline
RenderChunk_ShaBeforeNewline(rel, code_line_count, chunk, ci, total_chunks) ==
    LET chunk_text == EnsureNewline(chunk)
        chunk_lines == CountLF(chunk_text)
        sha_chunk == _sha256_bytes(chunk)
    IN  PasteItem(rel,
            [header |-> Header(rel, code_line_count, chunk_lines, ci,
                               total_chunks, sha_chunk),
             code |-> chunk_text, footer |-> Footer])

\* one chunk of a split file
RenderChunk(rel, code_line_count, chunk, ci, total_chunks) ==
    LET chunk_text == EnsureNewline(chunk)
        chunk_lines == CountLF(chunk_text)
        sha_chunk == _sha256_bytes(chunk_text)
    IN  PasteItem(rel,
            [header |-> Header(rel, code_line_count, chunk_lines, ci,
                               total_chunks, sha_chunk),
             code |-> chunk_text, footer |-> Footer])

\* the blocks of a split file, in chunk order
RenderSplitBlocks(rel, text, split_chunk_lines) ==
    LET code_line_count == CountLF(text)
        chunks == Chunks(splitlines_keepends(text), split_chunk_lines)
    IN  [ci \in 1..Len(chunks) |->
            RenderChunk(rel, code_line_count, chunks[ci], ci, Len(chunks))]

\* the one block of a file that is not split
RenderWholeBlock(rel, text) ==
    LET code_line_count == CountLF(text)
        sha == _sha256_bytes(text)
    IN  PasteItem(rel,
            [header |-> Header(rel, code_line_count, code_line_count, 1, 1, sha),
             code |-> text, footer |-> Footer])

\* the split condition of line 338
IsSplit(text, c) ==
    c.allow_split /\ c.split_chunk_lines > 0
        /\ CountLF(text) > c.split_chunk_lines

(***************************************************************************)
(* Paths and patterns: sequences of code points.                           *)
(***************************************************************************)
Slash == 47
Dot == 46
Star == 42
Question == 63
LBracket == 91
RBracket == 93
Space == 32

\* the characters of "*?[]"
WildChars == {Star, Question, LBracket, RBracket}

\* Python's order of str: by code point, a proper prefix first
RECURSIVE StrLess(_, _)
StrLess(a, b) ==
    IF b = <<>> THEN FALSE
    ELSE IF a = <<>> THEN TRUE
    ELSE IF Head(a) # Head(b) THEN Head(a) < Head(b)
    ELSE StrLess(Tail(a), Tail(b))

\* s.split("/")
RECURSIVE SplitSlash(_)
SplitSlash(s) ==
    LET B == {i \in 1..Len(s) : s[i] = Slash}
    IN  IF B = {} THEN <<s>>
        ELSE LET i == CHOOSE j \in B : \A k \in B : j <= k
             IN  <<SubSeq(s, 1, i - 1)>> \o SplitSlash(SubSeq(s, i + 1, Len(s)))

\* "/".join(parts)
RECURSIVE JoinSlash(_)
JoinSlash(parts) ==
    IF parts = <<>> THEN <<>>
    ELSE IF Len(parts) = 1 THEN parts[1]
    ELSE parts[1] \o <<Slash>> \o JoinSlash(Tail(parts))

\* PurePosixPath(s).parts of a relative s: empty and "." components vanish
Parts(s) == SelectSeq(SplitSlash(s), LAMBDA c : c # <<>> /\ c # <<Dot>>)

\* Path.parent of a relative path, as parts
ParentParts(rel) == LET ps == Parts(rel) IN SubSeq(ps, 1, Len(ps) - 1)

\* Path.name
Name(rel) == LET ps == Parts(rel) IN ps[Len(ps)]

\* PurePath.as_posix() of relative parts: "." for the empty path
AsPosix(parts) == IF parts = <<>> THEN <<Dot>> ELSE JoinSlash(parts)

\* str.strip() of a pattern
RECURSIVE Strip(_)
Strip(s) ==
    IF s # <<>> /\ Head(s) = Space THEN Strip(Tail(s))
    ELSE IF s # <<>> /\ s[Len(s)] = Space THEN Strip(SubSeq(s, 1, Len(s) - 1))
    ELSE s

HasWild(s) == \E i \in 1..Len(s) : s[i] \in WildChars
HasSlash(s) == \E i \in 1..Len(s) : s[i] = Slash

\* fnmatch.fnmatch on POSIX for patterns of literals, "*" and "?":
\* "*" matches any run of characters ("/" too), "?" any one character
RECURSIVE fnmatch(_, _)
fnmatch(name, pat) ==
    IF pat = <<>> THEN name = <<>>
    ELSE IF Head(pat) = Star
         THEN fnmatch(name, Tail(pat))
              \/ (name # <<>> /\ fnmatch(Tail(name), pat))
    ELSE IF Head(pat) = Question
         THEN name # <<>> /\ fnmatch(Tail(name), Tail(pat))
    ELSE name # <<>> /\ Head(name) = Head(pat)
              /\ fnmatch(Tail(name), Tail(pat))

\* _match_any_rel
_match_any_rel(patterns, rel_posix) ==
    \E i \in 1..Len(patterns) : fnmatch(rel_posix, patterns[i])

\* Path.glob: does the file with these parts match the pattern parts?
\* "**" stands for any chain of directories, any other part matches one name
RECURSIVE GlobParts(_, _)
GlobParts(parts, pat) ==
    IF pat = <<>> THEN parts = <<>>
    ELSE IF Head(pat) = <<Star, Star>>
         THEN GlobParts(parts, Tail(pat))
              \/ (Len(parts) >= 2 /\ GlobParts(Tail(parts), pat))
    ELSE parts # <<>> /\ fnmatch(Head(parts), Head(pat))
              /\ GlobParts(Tail(parts), Tail(pat))

GlobMatch(rel, pat) == GlobParts(Parts(rel), Parts(pat))

(***************************************************************************)
(* File selection.                                                         *)
(***************************************************************************)
\* _normalize_globs
RECURSIVE _normalize_globs(_, _)
_normalize_globs(globs, filename_search) ==
    IF globs = <<>> THEN <<>>
    ELSE LET s0 == Strip(Head(globs))
             s == IF Len(s0) >= 2 /\ s0[1] = Dot /\ s0[2] = Slash
                  THEN SubSeq(s0, 3, Len(s0)) ELSE s0
             is_pure_filename == ~HasSlash(s) /\ ~HasWild(s)
             rest == _normalize_globs(Tail(globs), filename_search)
         IN  IF s0 = <<>> THEN rest
             ELSE IF filename_search /\ is_pure_filename
                  THEN <<s, <<Star, Star, Slash>> \o s>> \o rest
                  ELSE <<s>> \o rest

\* _split_dir_excludes: the names, the bases (as parts under the root) and
\* the globs among the directory exclusions
DirNames(xs) ==
    LET st == [i \in 1..Len(xs) |-> Strip(xs[i])]
    IN  SelectSeq(st, LAMBDA s : s # <<>> /\ ~HasWild(s) /\ ~HasSlash(s))

DirBases(xs) ==
    LET st == [i \in 1..Len(xs) |-> Strip(xs[i])]
        bs == SelectSeq(st, LAMBDA s : s # <<>> /\ ~HasWild(s) /\ HasSlash(s))
    IN  [i \in 1..Len(bs) |-> Parts(bs[i])]

DirGlobs(xs) ==
    LET st == [i \in 1..Len(xs) |-> Strip(xs[i])]
    IN  SelectSeq(st, LAMBDA s : s # <<>> /\ HasWild(s))

IsPrefix(a, b) == Len(a) <= Len(b) /\ SubSeq(b, 1, Len(a)) = a

\* _under_any_base, for bases relative to the root
_under_any_base(parent_parts, bases) ==
    \E i \in 1..Len(bases) : IsPrefix(bases[i], parent_parts)

\* _has_any_dirname
_has_any_dirname(parent_parts, names) ==
    \E i \in 1..Len(parent_parts) : parent_parts[i] \in Range(names)

\* _effective_include_list
_effective_include_list(c) ==
    IF c.include # <<>> THEN c.include
    ELSE <<<<Star, Dot, Star>>, <<Star, Star, Slash, Star, Dot, Star>>>>

\* a gathering that yields a file once per pattern that matches it
RECURSIVE _iter_include_candidates_NoSeen(_, _, _)
_iter_include_candidates_NoSeen(listing, include, seen) ==
    IF include = <<>> THEN <<>>
    ELSE SelectSeq(listing, LAMBDA p : GlobMatch(p, Head(include))) \o
         _iter_include_candidates_NoSeen(listing, Tail(include), seen)

\* _iter_include_candidates: per pattern, the files it matches in the order
\* the directory listing gives them (listing), each file once
RECURSIVE _iter_include_candidates(_, _, _)
_iter_include_candidates(listing, include, seen) ==
    IF include = <<>> THEN <<>>
    ELSE LET hits == SelectSeq(listing,
                        LAMBDA p : GlobMatch(p, Head(include)) /\ p \notin seen)
         IN  hits \o _iter_include_candidates(listing, Tail(include),
                                              seen \cup Range(hits))

\* a filter chain in which a match of an only pattern overrides the exclude
\* and skip patterns
Kept_OnlyWins(c, rel_posix) ==
    LET exclude_globs == _normalize_globs(c.exclude, c.filename_search)
        parent == ParentParts(rel_posix)
        g_rel_file_globs == SelectSeq(c.exclude_files, HasWild)
        g_rel_file_names == Range(SelectSeq(c.exclude_files,
                                            LAMBDA g : ~HasWild(g)))
    IN  /\ ~_has_any_dirname(parent, DirNames(c.exclude_dirs))
        /\ ~_under_any_base(parent, DirBases(c.exclude_dirs))
        /\ ~_match_any_rel(DirGlobs(c.exclude_dirs), AsPosix(parent))
        /\ ~_match_any_rel(DirGlobs(c.exclude_dirs), rel_posix)
        /\ Name(rel_posix) \notin g_rel_file_names
        /\ ~_match_any_rel(g_rel_file_globs, rel_posix)
        /\ \/ c.only_globs # <<>> /\ _match_any_rel(c.only_globs, rel_posix)
           \/ /\ c.only_globs = <<>>
              /\ ~_match_any_rel(exclude_globs, rel_posix)
              /\ ~_match_any_rel(c.skip_globs, rel_posix)

\* the filter chain of _gather_files (lines 195-229): is the candidate kept?
Kept(c, rel_posix) ==
    LET exclude_globs == _normalize_globs(c.exclude, c.filename_search)
        parent == ParentParts(rel_posix)
        g_rel_file_globs == SelectSeq(c.exclude_files, HasWild)
        g_rel_file_names == Range(SelectSeq(c.exclude_files,
                                            LAMBDA g : ~HasWild(g)))
    IN  /\ ~_has_any_dirname(parent, DirNames(c.exclude_dirs))
        /\ ~_under_any_base(parent, DirBases(c.exclude_dirs))
        /\ ~_match_any_rel(DirGlobs(c.exclude_dirs), AsPosix(parent))
        /\ ~_match_any_rel(DirGlobs(c.exclude_dirs), rel_posix)
        /\ Name(rel_posix) \notin g_rel_file_names
        /\ ~_match_any_rel(g_rel_file_globs, rel_posix)
        /\ ~_match_any_rel(exclude_globs, rel_posix)
        /\ (c.only_globs # <<>> => _match_any_rel(c.only_globs, rel_posix))
        /\ ~(c.skip_globs # <<>> /\ _match_any_rel(c.skip_globs, rel_posix))

\* sorted(files, key=relative POSIX path): insertion sort, stable
RECURSIVE InsertPath(_, _)
InsertPath(p, s) ==
    IF s = <<>> THEN <<p>>
    ELSE IF StrLess(p, Head(s)) THEN <<p>> \o s
    ELSE <<Head(s)>> \o InsertPath(p, Tail(s))

RECURSIVE SortPaths(_)
SortPaths(s) ==
    IF s = <<>> THEN <<>>
    ELSE InsertPath(s[Len(s)], SortPaths(SubSeq(s, 1, Len(s) - 1)))

\* a selector that returns the survivors in the order they were found
_gather_files_Unsorted(c, listing) ==
    LET include_globs == _normalize_globs(_effective_include_list(c),
                                          c.filename_search)
        cands == _iter_include_candidates(listing, include_globs, {})
    IN  SelectSeq(cands, LAMBDA p : Kept(c, p))

\* _gather_files, given the order in which the directory listing yields
\* the files of the tree
_gather_files(c, listing) ==
    LET include_globs == _normalize_globs(_effective_include_list(c),
                                          c.filename_search)
        cands == _iter_include_candidates(listing, include_globs, {})
    IN  SortPaths(SelectSeq(cands, LAMBDA p : Kept(c, p)))

\* the orders a directory listing can give the files of a set
Listings(S) == {s \in [1..Cardinality(S) -> S] : Range(s) = S}

(***************************************************************************)
(* Packing.                                                                *)
(***************************************************************************)
\* items.sort(key=lines, reverse=True): stable, equal sizes keep their order
RECURSIVE InsertItem(_, _)
InsertItem(it, s) ==
    IF s = <<>> THEN <<it>>
    ELSE IF it.lines > Head(s).lines THEN <<it>> \o s
    ELSE <<Head(s)>> \o InsertItem(it, Tail(s))

RECURSIVE SortItems(_)
SortItems(s) ==
    IF s = <<>> THEN <<>>
    ELSE InsertItem(s[Len(s)], SortItems(SubSeq(s, 1, Len(s) - 1)))

\* limit_cap + limit_soft of _first_fit_pack
Limit(cap, soft_overflow) == Max(1, cap) + Max(0, soft_overflow)

\* a capacity that follows target_files above max_lines
ResolveCapacity_Uncapped(c, total) ==
    IF c.target_files > 0
    THEN Max(1, CeilDiv(total, c.target_files))
    ELSE c.max_lines

\* the capacity run_paste hands to the packer (lines 390-395)
ResolveCapacity(c, total) ==
    IF c.target_files > 0
    THEN Min(Max(1, CeilDiv(total, c.target_files)), c.max_lines)
    ELSE c.max_lines

\* a packer that looks at the room already used only
Fitting_IgnoresSize(u, size, limit) == {i \in 1..Len(u) : u[i] <= limit}

\* a packer that wants room to spare in a bucket
Fitting_Strict(u, size, limit) == {i \in 1..Len(u) : u[i] + size < limit}

\* a next-fit packer: only the bucket opened last is looked at
Fitting_NextFit(u, size, limit) ==
    {i \in 1..Len(u) : i = Len(u) /\ u[i] + size <= limit}

\* the buckets an item of this size fits in
Fitting(u, size, limit) == {i \in 1..Len(u) : u[i] + size <= limit}

(***************************************************************************)
(* The index rows (lines 411-423).                                         *)
(***************************************************************************)
\* re.search(r"^LINES:\s+(\d+)$", rendered, re.M): the header precedes the
\* code, so the first match is the first header line of that key
HeaderHits(rendered, key) ==
    SelectSeq(rendered.header, LAMBDA l : l.key = key)

\* an index that reads the first header line whose key ends in LINES
IndexRow_Unanchored(it) ==
    LET m_lines == SelectSeq(it.rendered.header,
                             LAMBDA l : l.key \in {"TOTAL_LINES", "LINES"})
        m_chunk == HeaderHits(it.rendered, "CHUNK")
        code_lines == IF m_lines # <<>> THEN m_lines[1].val ELSE 0
        disp == IF m_chunk # <<>> THEN <<it.rel_path, m_chunk[1].val>>
                ELSE <<it.rel_path>>
    IN  <<disp, code_lines>>

IndexRow(it) ==
    LET m_lines == HeaderHits(it.rendered, "LINES")
        m_chunk == HeaderHits(it.rendered, "CHUNK")
        code_lines == IF m_lines # <<>> THEN m_lines[1].val ELSE 0
        disp == IF m_chunk # <<>> THEN <<it.rel_path, m_chunk[1].val>>
                ELSE <<it.rel_path>>
    IN  <<disp, code_lines>>

(***************************************************************************)
(* The output directory: whether it exists, the paste files by number and  *)
(* index.txt.                                                              *)
(***************************************************************************)
\* index is <<>> while there is no index.txt, else <<its content>>
NoOutput == [exists |-> FALSE, paste |-> <<>>, index |-> <<>>]

\* a writer that puts the blocks of a bucket in the file last to first
PasteFile_Reversed(bucket) ==
    [i \in 1..Len(bucket) |-> bucket[Len(bucket) + 1 - i].rendered]

\* a bucket written to paste_NN.txt: the rendered blocks in bucket order
PasteFile(bucket) == [i \in 1..Len(bucket) |-> bucket[i].rendered]

WritePaste(o, n, bucket) ==
    [o EXCEPT !.paste = [k \in DOMAIN o.paste \cup {n} |->
                            IF k = n THEN PasteFile(bucket) ELSE o.paste[k]]]

IndexFile(sections, wr) ==
    [sections |-> sections,
     total_paste_files |-> Len(wr),
     generated |-> [i \in 1..Len(wr) |-> wr[i][1]],
     total_entries |-> SumSeq([i \in 1..Len(sections) |-> Len(sections[i])])]

(***************************************************************************)
(* run_paste, step by step.                                                *)
(***************************************************************************)
Locals0 ==
    /\ files = <<>> /\ fi = 1 /\ items = <<>> /\ total_item_lines = 0
    /\ capacity = 0 /\ pi = 1 /\ buckets = <<>> /\ used = <<>> /\ wi = 1
    /\ written = <<>> /\ index_sections = <<>> /\ stdout = <<>>

\* line 279: files = _gather_files(pcfg); a root that is no directory
\* lists nothing
GatherFiles ==
    /\ pc = "start"
    /\ \E listing \in Listings(IF root = "dir" THEN DOMAIN tree ELSE {}) :
          files' = _gather_files(cfg, listing)
    /\ pc' = "gathered"
    /\ UNCHANGED <<cfg, root, tree, out, fi, items, total_item_lines, capacity,
                   pi, buckets, used, wi, written, index_sections, stdout,
                   run, prev, cleanv>>

\* lines 281-289
ListOnly ==
    /\ pc = "gathered" /\ cfg.list_only
    /\ stdout' = <<<<"Prosjekt">>, <<"Antall filer", Len(files)>>>> \o
                 [i \in 1..Len(files) |-> <<"fil", files[i]>>]
    /\ pc' = "done"
    /\ UNCHANGED <<cfg, root, tree, out, files, fi, items, total_item_lines,
                   capacity, pi, buckets, used, wi, written, index_sections,
                   run, prev, cleanv>>

\* an engine that makes the output directory before it looks at list_only
MkOutDir_BeforeListOnly ==
    /\ pc = "gathered"
    /\ cfg.out_dir_abs \/ root # "file"
    /\ out' = [out EXCEPT !.exists = TRUE]
    /\ root' = IF ~cfg.out_dir_abs /\ root = "missing" THEN "dir" ELSE root
    /\ pc' = "render"
    /\ UNCHANGED <<cfg, tree, files, fi, items, total_item_lines, capacity, pi,
                   buckets, used, wi, written, index_sections, stdout, run,
                   prev, cleanv>>

\* an engine that empties the output directory when it makes it
MkOutDir_Clears ==
    /\ pc = "gathered" /\ ~cfg.list_only
    /\ cfg.out_dir_abs \/ root # "file"
    /\ out' = [exists |-> TRUE, paste |-> <<>>, index |-> <<>>]
    /\ root' = IF ~cfg.out_dir_abs /\ root = "missing" THEN "dir" ELSE root
    /\ pc' = "render"
    /\ UNCHANGED <<cfg, tree, files, fi, items, total_item_lines, capacity, pi,
                   buckets, used, wi, written, index_sections, stdout, run,
                   prev, cleanv>>

\* line 291: out_dir.mkdir(parents=True, exist_ok=True); an out_dir under
\* the root creates a missing root with it
MkOutDir ==
    /\ pc = "gathered" /\ ~cfg.list_only
    /\ cfg.out_dir_abs \/ root # "file"
    /\ out' = [out EXCEPT !.exists = TRUE]
    /\ root' = IF ~cfg.out_dir_abs /\ root = "missing" THEN "dir" ELSE root
    /\ pc' = "render"
    /\ UNCHANGED <<cfg, tree, files, fi, items, total_item_lines, capacity, pi,
                   buckets, used, wi, written, index_sections, stdout, run,
                   prev, cleanv>>

\* line 291 when the root is a regular file: NotADirectoryError
MkOutDirFails ==
    /\ pc = "gathered" /\ ~cfg.list_only
    /\ ~cfg.out_dir_abs /\ root = "file"
    /\ pc' = "raised"
    /\ UNCHANGED <<cfg, root, tree, out, files, fi, items, total_item_lines,
                   capacity, pi, buckets, used, wi, written, index_sections,
                   stdout, run, prev, cleanv>>

\* lines 299-300: a binary file is passed over
SkipBinary ==
    /\ pc = "render" /\ fi <= Len(files)
    /\ ~cfg.allow_binary /\ _is_binary(tree[files[fi]])
    /\ fi' = fi + 1
    /\ UNCHANGED <<cfg, root, tree, out, pc, files, items, total_item_lines,
                   capacity, pi, buckets, used, wi, written, index_sections,
                   stdout, run, prev, cleanv>>

\* line 308: _read_text raises on a file that cannot be read
ReadFails ==
    /\ pc = "render" /\ fi <= Len(files)
    /\ ~(~cfg.allow_binary /\ _is_binary(tree[files[fi]]))
    /\ ~tree[files[fi]].readable
    /\ pc' = "raised"
    /\ UNCHANGED <<cfg, root, tree, out, files, fi, items, total_item_lines,
                   capacity, pi, buckets, used, wi, written, index_sections,
                   stdout, run, prev, cleanv>>

\* the file the render loop is at can be read and is rendered
Renders ==
    /\ pc = "render" /\ fi <= Len(files)
    /\ ~(~cfg.allow_binary /\ _is_binary(tree[files[fi]]))
    /\ tree[files[fi]].readable

\* the text of the file the render loop is at, after lines 308-330
CurrentText == PolicyText(_read_text(tree[files[fi]]), cfg.blank_policy)

\* lines 338-363
RenderSplit ==
    /\ Renders
    /\ IsSplit(CurrentText, cfg)
    /\ LET new == RenderSplitBlocks(files[fi], CurrentText,
                                    cfg.split_chunk_lines)
       IN  /\ items' = items \o new
           /\ total_item_lines' = total_item_lines
                  + SumSeq([i \in 1..Len(new) |-> new[i].lines])
    /\ fi' = fi + 1
    /\ UNCHANGED <<cfg, root, tree, out, pc, files, capacity, pi, buckets,
                   used, wi, written, index_sections, stdout, run, prev, cleanv>>

\* lines 365-379
RenderWhole ==
    /\ Renders
    /\ ~IsSplit(CurrentText, cfg)
    /\ LET new == RenderWholeBlock(files[fi], CurrentText)
       IN  /\ items' = Append(items, new)
           /\ total_item_lines' = total_item_lines + new.lines
    /\ fi' = fi + 1
    /\ UNCHANGED <<cfg, root, tree, out, pc, files, capacity, pi, buckets,
                   used, wi, written, index_sections, stdout, run, prev, cleanv>>

\* line 382, after the last file
SortBlocks ==
    /\ pc = "render" /\ fi > Len(files)
    /\ items' = SortItems(items)
    /\ pc' = "capacity"
    /\ UNCHANGED <<cfg, root, tree, out, files, fi, total_item_lines, capacity,
                   pi, buckets, used, wi, written, index_sections, stdout, run,
                   prev, cleanv>>

\* an engine that gives every block a bucket of its own when forced
ForceSingle_PerItem ==
    /\ pc = "capacity" /\ cfg.force_single_file
    /\ buckets' = [i \in 1..Len(items) |-> <<items[i]>>]
    /\ pc' = "write"
    /\ UNCHANGED <<cfg, root, tree, out, files, fi, items, total_item_lines,
                   capacity, pi, used, wi, written, index_sections, stdout,
                   run, prev, cleanv>>

\* lines 385-386
ForceSingle ==
    /\ pc = "capacity" /\ cfg.force_single_file
    /\ buckets' = IF items # <<>> THEN <<items>> ELSE <<>>
    /\ pc' = "write"
    /\ UNCHANGED <<cfg, root, tree, out, files, fi, items, total_item_lines,
                   capacity, pi, used, wi, written, index_sections, stdout,
                   run, prev, cleanv>>

\* lines 390-397 and 43-47: the capacity, and the packer starts empty
StartPack ==
    /\ pc = "capacity" /\ ~cfg.force_single_file
    /\ capacity' = ResolveCapacity(cfg, total_item_lines)
    /\ buckets' = <<>> /\ used' = <<>> /\ pi' = 1
    /\ pc' = "pack"
    /\ UNCHANGED <<cfg, root, tree, out, files, fi, items, total_item_lines,
                   wi, written, index_sections, stdout, run, prev, cleanv>>

PackFrame == UNCHANGED <<cfg, root, tree, out, pc, files, fi, items,
                         total_item_lines, capacity, wi, written,
                         index_sections, stdout, run, prev, cleanv>>

\* lines 51-54: an item above the limit gets a bucket of its own
PackOversized ==
    /\ pc = "pack" /\ pi <= Len(items)
    /\ items[pi].lines > Limit(capacity, cfg.soft_overflow)
    /\ buckets' = Append(buckets, <<items[pi]>>)
    /\ used' = Append(used, items[pi].lines)
    /\ pi' = pi + 1
    /\ PackFrame

\* a packer that replaces the content of the bucket it places an item in
PackPlace_Replaces ==
    /\ pc = "pack" /\ pi <= Len(items)
    /\ items[pi].lines <= Limit(capacity, cfg.soft_overflow)
    /\ LET fit == Fitting(used, items[pi].lines,
                          Limit(capacity, cfg.soft_overflow))
       IN  /\ fit # {}
           /\ LET i == CHOOSE j \in fit : \A k \in fit : j <= k
              IN  /\ buckets' = [buckets EXCEPT ![i] = <<items[pi]>>]
                  /\ used' = [used EXCEPT ![i] = @ + items[pi].lines]
    /\ pi' = pi + 1
    /\ PackFrame

\* lines 56-62: the item goes to the first bucket with room
PackPlace ==
    /\ pc = "pack" /\ pi <= Len(items)
    /\ items[pi].lines <= Limit(capacity, cfg.soft_overflow)
    /\ LET fit == Fitting(used, items[pi].lines,
                          Limit(capacity, cfg.soft_overflow))
       IN  /\ fit # {}
           /\ LET i == CHOOSE j \in fit : \A k \in fit : j <= k
              IN  /\ buckets' = [buckets EXCEPT ![i] = Append(@, items[pi])]
                  /\ used' = [used EXCEPT ![i] = @ + items[pi].lines]
    /\ pi' = pi + 1
    /\ PackFrame

\* lines 63-65: no bucket has room
PackNew ==
    /\ pc = "pack" /\ pi <= Len(items)
    /\ items[pi].lines <= Limit(capacity, cfg.soft_overflow)
    /\ Fitting(used, items[pi].lines, Limit(capacity, cfg.soft_overflow)) = {}
    /\ buckets' = Append(buckets, <<items[pi]>>)
    /\ used' = Append(used, items[pi].lines)
    /\ pi' = pi + 1
    /\ PackFrame

\* line 67: the packer returns
PackDone ==
    /\ pc = "pack" /\ pi > Len(items)
    /\ pc' = "write"
    /\ UNCHANGED <<cfg, root, tree, out, files, fi, items, total_item_lines,
                   capacity, pi, buckets, used, wi, written, index_sections,
                   stdout, run, prev, cleanv>>

\* lines 405-427: one bucket is written to paste_NN.txt
WriteBucket ==
    /\ pc = "write" /\ wi <= Len(buckets)
    /\ LET bucket == buckets[wi]
           lines_this == SumSeq([i \in 1..Len(bucket) |-> bucket[i].lines])
       IN  /\ out' = WritePaste(out, wi, bucket)
           /\ written' = Append(written, <<wi, lines_this>>)
           /\ index_sections' = Append(index_sections,
                                  [i \in 1..Len(bucket) |-> IndexRow(bucket[i])])
    /\ wi' = wi + 1
    /\ UNCHANGED <<cfg, root, tree, pc, files, fi, items, total_item_lines,
                   capacity, pi, buckets, used, stdout, run, prev, cleanv>>

\* lines 430-452: the log of the paste files and index.txt
WriteIndex ==
    /\ pc = "write" /\ wi > Len(buckets)
    /\ stdout' = stdout \o [i \in 1..Len(written) |->
                               <<"skrev", written[i][1], written[i][2]>>]
    /\ out' = [out EXCEPT !.index = <<IndexFile(index_sections, written)>>]
    /\ pc' = "summary"
    /\ UNCHANGED <<cfg, root, tree, files, fi, items, total_item_lines,
                   capacity, pi, buckets, used, wi, written, index_sections,
                   run, prev, cleanv>>

\* lines 455-469: the summary on stdout
Summary ==
    /\ pc = "summary"
    /\ stdout' = stdout \o
          <<<<"Totalt filer",
              SumSeq([i \in 1..Len(index_sections) |-> Len(index_sections[i])])>>,
            <<"Totalt linjer",
              SumSeq([i \in 1..Len(index_sections) |->
                  SumSeq([j \in 1..Len(index_sections[i]) |->
                             index_sections[i][j][2]])])>>,
            <<"Antall paste-filer", Len(written)>>,
            <<"Index">>>>
    /\ pc' = "done"
    /\ UNCHANGED <<cfg, root, tree, out, files, fi, items, total_item_lines,
                   capacity, pi, buckets, used, wi, written, index_sections,
                   run, prev, cleanv>>

\* the caller clears the output directory and runs the engine again on the
\* same tree with the same configuration
RunAgainCleared ==
    /\ pc = "done" /\ run = 1
    /\ prev' = <<[out |-> out, stdout |-> stdout]>>
    /\ out' = [out EXCEPT !.paste = <<>>, !.index = <<>>]
    /\ run' = 2
    /\ pc' = "start"
    /\ files' = <<>> /\ fi' = 1 /\ items' = <<>> /\ total_item_lines' = 0
    /\ capacity' = 0 /\ pi' = 1 /\ buckets' = <<>> /\ used' = <<>> /\ wi' = 1
    /\ written' = <<>> /\ index_sections' = <<>> /\ stdout' = <<>>
    /\ UNCHANGED <<cfg, root, tree, cleanv>>

RunStep ==
    \/ GatherFiles \/ ListOnly \/ MkOutDir \/ MkOutDirFails
    \/ SkipBinary \/ ReadFails \/ RenderSplit \/ RenderWhole
    \/ SortBlocks \/ ForceSingle \/ StartPack
    \/ PackOversized \/ PackPlace \/ PackNew \/ PackDone
    \/ WriteBucket \/ WriteIndex \/ Summary

(***************************************************************************)
(* clean_temp (r_tools/tools/clean_temp.py).  The project tree is a set of *)
(* nodes [path, dir]: path is the sequence of the names below the project  *)
(* root, a name is the sequence of its code points, dir tells a directory  *)
(* from a file.  There are no symbolic links, so resolve() changes no path.*)
(***************************************************************************)
\* the names of _DIR_TARGETS, by target key
_DIR_TARGETS ==
    ("pycache" :> {<<95, 95, 112, 121, 99, 97, 99, 104, 101, 95, 95>>}) @@    \* __pycache__
    ("pytest_cache" :> {<<46, 112, 121, 116, 101, 115, 116, 95, 99, 97, 99, 104, 101>>}) @@    \* .pytest_cache
    ("mypy_cache" :> {<<46, 109, 121, 112, 121, 95, 99, 97, 99, 104, 101>>}) @@    \* .mypy_cache
    ("ruff_cache" :> {<<46, 114, 117, 102, 102, 95, 99, 97, 99, 104, 101>>}) @@    \* .ruff_cache
    ("coverage" :> {<<104, 116, 109, 108, 99, 111, 118>>}) @@    \* htmlcov
    ("build" :> {<<98, 117, 105, 108, 100>>}) @@    \* build
    ("dist" :> {<<100, 105, 115, 116>>}) @@    \* dist
    ("node_modules" :> {<<110, 111, 100, 101, 95, 109, 111, 100, 117, 108, 101, 115>>})    \* node_modules

\* the patterns of _FILE_PATTERNS, by target key
_FILE_PATTERNS ==
    \* .coverage  .coverage.*
    ("coverage" :> <<<<46, 99, 111, 118, 101, 114, 97, 103, 101>>,
        <<46, 99, 111, 118, 101, 114, 97, 103, 101, 46, 42>>>>) @@
    \* *~  .*.swp  .*.swo  *.tmp  *.bak
    ("editor" :> <<<<42, 126>>,
        <<46, 42, 46, 115, 119, 112>>,
        <<46, 42, 46, 115, 119, 111>>,
        <<42, 46, 116, 109, 112>>,
        <<42, 46, 98, 97, 107>>>>) @@
    \* .DS_Store
    ("ds_store" :> <<<<46, 68, 83, 95, 83, 116, 111, 114, 101>>>>) @@
    \* Thumbs.db  ehthumbs.db
    ("thumbs_db" :> <<<<84, 104, 117, 109, 98, 115, 46, 100, 98>>,
        <<101, 104, 116, 104, 117, 109, 98, 115, 46, 100, 98>>>>)

\* sorted(_PROTECTED_ENV_DIRS): .conda  .env  .tox  .venv  conda-env  env  venv
SortedProtected ==
    <<<<46, 99, 111, 110, 100, 97>>,
      <<46, 101, 110, 118>>,
      <<46, 116, 111, 120>>,
      <<46, 118, 101, 110, 118>>,
      <<99, 111, 110, 100, 97, 45, 101, 110, 118>>,
      <<101, 110, 118>>,
      <<118, 101, 110, 118>>>>

_PROTECTED_ENV_DIRS == Range(SortedProtected)

PyvenvCfg == <<112, 121, 118, 101, 110, 118, 46, 99, 102, 103>>    \* pyvenv.cfg

\* _match_any_name on the parts below the project root (the path of the
\* root itself holds no such name)
_match_any_name(path, names) == \E i \in 1..Len(path) : path[i] \in names

\* "**/<d>/**"
TreePattern(d) == <<Star, Star, Slash>> \o d \o <<Slash, Star, Star>>

\* str.strip("/")
RECURSIVE StripSlashes(_)
StripSlashes(s) ==
    IF s # <<>> /\ Head(s) = Slash THEN StripSlashes(Tail(s))
    ELSE IF s # <<>> /\ s[Len(s)] = Slash
         THEN StripSlashes(SubSeq(s, 1, Len(s) - 1))
    ELSE s

\* if pat not in skip: skip.append(pat)
AppendNew(skip, pat) == IF pat \in Range(skip) THEN skip ELSE Append(skip, pat)

\* lines 47-53
RECURSIVE SkipFromDirs(_, _)
SkipFromDirs(dirs, skip) ==
    IF dirs = <<>> THEN skip
    ELSE LET d == StripSlashes(Head(dirs))
         IN  SkipFromDirs(Tail(dirs),
                 IF d # <<>> THEN AppendNew(skip, TreePattern(d)) ELSE skip)

\* lines 55-60
RECURSIVE SkipFromFiles(_, _)
SkipFromFiles(fs, skip) ==
    IF fs = <<>> THEN skip
    ELSE LET f == Strip(Head(fs))
             pat == IF HasWild(f) THEN f ELSE <<Star, Star, Slash>> \o f
         IN  SkipFromFiles(Tail(fs),
                 IF f # <<>> THEN AppendNew(skip, pat) ELSE skip)

_normalize_globs_from_excludes(dirs, fs) ==
    SkipFromFiles(fs, SkipFromDirs(dirs, <<>>))

\* the paths of the directories and of the files of a tree
DirsOf(t) == {n.path : n \in {m \in t : m.dir}}
FilesOf(t) == {n.path : n \in {m \in t : ~m.dir}}

Last(path) == path[Len(path)]
Parent(path) == SubSeq(path, 1, Len(path) - 1)

\* _is_inside_venv: the path or a directory above it, up to the project
\* root, holds a file pyvenv.cfg
_is_inside_venv(t, path) ==
    \E k \in 0..Len(path) : (SubSeq(path, 1, k) \o <<PyvenvCfg>>) \in FilesOf(t)

\* Path.glob of Python 3.11 on a node: "**" before other parts stands for
\* any chain of directories, a closing "**" for every directory below (and
\* no file), any other part matches one name
RECURSIVE GlobNode(_, _, _)
GlobNode(path, isdir, pat) ==
    IF pat = <<>> THEN path = <<>>
    ELSE IF Head(pat) = <<Star, Star>>
         THEN IF Tail(pat) = <<>> THEN isdir
              ELSE \/ GlobNode(path, isdir, Tail(pat))
                   \/ /\ path # <<>>
                      /\ Len(path) >= 2 \/ isdir
                      /\ GlobNode(Tail(path), isdir, pat)
    ELSE path # <<>> /\ fnmatch(Head(path), Head(pat))
              /\ GlobNode(Tail(path), isdir, Tail(pat))

\* root.glob(pat): the nodes of the tree below the root that match
GlobHits(t, pat) == {n \in t : GlobNode(n.path, n.dir, Parts(pat))}

\* is_on of _gather_targets; targets holds the keys the configuration
\* switches on
is_on(c, only, skip, key) ==
    /\ key \notin skip
    /\ only # {} => key \in only
    /\ key \in c.targets

\* the directory names of the targets that are on
OnDirNames(c, only, skip) ==
    UNION {_DIR_TARGETS[k] : k \in {q \in DOMAIN _DIR_TARGETS :
                                      is_on(c, only, skip, q)}}

\* line 130: a directory target that is left alone as a part of an
\* environment
Guarded(t, c, path) ==
    /\ ~c.allow_venv_clean
    /\ _is_inside_venv(t, path) \/ _match_any_name(path, _PROTECTED_ENV_DIRS)

\* the directories os.walk leaves out: protect_env_dirs took the name
\* from dirnames (lines 103-113), or it is a target that was put on the
\* list (lines 127-135)
Pruned(t, c, only, skip, d) ==
    \/ ~c.allow_venv_clean /\ Last(d) \in _PROTECTED_ENV_DIRS
    \/ Last(d) \in OnDirNames(c, only, skip) /\ ~Guarded(t, c, d)

\* the directories os.walk visits, the root among them
Walked(t, c, only, skip) ==
    {d \in DirsOf(t) \cup {<<>>} :
        \A i \in 1..Len(d) : ~Pruned(t, c, only, skip, SubSeq(d, 1, i))}

\* lines 117-135: the directory targets found by the walk
WalkDirs(t, c, only, skip) ==
    LET walked == Walked(t, c, only, skip)
    IN
    {d \in DirsOf(t) :
        /\ d # <<>> /\ Parent(d) \in walked
        /\ ~(~c.allow_venv_clean /\ Last(d) \in _PROTECTED_ENV_DIRS)
        /\ Last(d) \in OnDirNames(c, only, skip)
        /\ ~Guarded(t, c, d)}

\* lines 138-147: the files of the visited directories that match a
\* pattern of a target that is on
WalkFiles(t, c, only, skip) ==
    LET walked == Walked(t, c, only, skip)
    IN
    {f \in FilesOf(t) :
        /\ Parent(f) \in walked
        /\ \E key \in DOMAIN _FILE_PATTERNS :
              /\ is_on(c, only, skip, key)
              /\ \E i \in 1..Len(_FILE_PATTERNS[key]) :
                    fnmatch(Last(f), _FILE_PATTERNS[key][i])
        /\ ~(~c.allow_venv_clean /\ _is_inside_venv(t, f))}

\* lines 150-158: the nodes the extra globs add
ExtraHits(t, c) ==
    {n \in t :
        /\ \E i \in 1..Len(c.extra_globs) : n \in GlobHits({n}, c.extra_globs[i])
        /\ ~(~c.allow_venv_clean /\ _is_inside_venv(t, n.path))}

\* should_skip of _gather_targets
should_skip(t, skip_globs, path) ==
    \E i \in 1..Len(skip_globs) :
        IF HasWild(skip_globs[i])
        THEN \E m \in t : m.path = path /\ m \in GlobHits({m}, skip_globs[i])
        ELSE Parts(skip_globs[i]) = path

\* _gather_targets: the directories and the files to delete
_gather_targets(t, c, skip_globs, only, skip) ==
    LET extra == ExtraHits(t, c)
        del_dirs == WalkDirs(t, c, only, skip)
                        \cup {n.path : n \in {m \in extra : m.dir}}
        del_files == WalkFiles(t, c, only, skip)
                        \cup {n.path : n \in {m \in extra : ~m.dir}}
    IN  [dirs |-> {d \in del_dirs : ~should_skip(t, skip_globs, d)},
         files |-> {f \in del_files : ~should_skip(t, skip_globs, f)}]

\* lines 266-271: the patterns of the protected names that are not yet in
\* the list
RECURSIVE AddProtected(_, _)
AddProtected(names, skip_globs) ==
    IF names = <<>> THEN skip_globs
    ELSE AddProtected(Tail(names), AppendNew(skip_globs, TreePattern(Head(names))))

\* lines 251-271: the skip_globs run_clean hands to _gather_targets
SkipGlobs(c) ==
    LET own == c.skip_globs \o
                   _normalize_globs_from_excludes(c.exclude_dirs, c.exclude_files)
        all == IF c.honor_global_excludes
               THEN own \o _normalize_globs_from_excludes(c.global_exclude_dirs,
                                                          c.global_exclude_files)
               ELSE own
    IN  IF c.allow_venv_clean THEN all ELSE AddProtected(SortedProtected, all)

\* _rm_dir and _rm_file when every unlink and rmdir succeeds: a listed
\* directory goes with everything below it, a listed file goes
Deleted(t, ds, fs) ==
    {n \in t : (\E d \in ds : IsPrefix(d, n.path)) \/ n.path \in fs}

\* the configuration of clean: clean.enable, the keys clean.targets
\* switches on, clean.extra_globs, clean.exclude_dirs and
\* clean.allow_venv_clean; the other lists are empty
CleanConfig(en, tg, eg, xd, av) ==
    [enable |-> en, targets |-> tg, extra_globs |-> eg, skip_globs |-> <<>>,
     exclude_dirs |-> xd, exclude_files |-> <<>>,
     honor_global_excludes |-> FALSE, global_exclude_dirs |-> <<>>,
     global_exclude_files |-> <<>>, allow_venv_clean |-> av]

\* run_clean up to the listing (lines 242-289), for the arguments only,
\* skip and dry_run
CleanGather(only, skip, dry) ==
    /\ cpc = "idle" /\ ccalls < MaxCalls
    /\ ccfg.enable
    /\ LET g == _gather_targets(ctree, ccfg, SkipGlobs(ccfg), only, skip)
       IN  cdirs' = g.dirs /\ cfiles' = g.files
    /\ cdry' = dry /\ conly' = only
    /\ cpc' = "listed"
    /\ UNCHANGED <<ctree0, ctree, ccfg, ccalls, pastev>>

\* lines 245-247: clean is switched off
CleanDisabled ==
    /\ cpc = "idle" /\ ccalls < MaxCalls
    /\ ~ccfg.enable
    /\ ccalls' = ccalls + 1
    /\ UNCHANGED <<ctree0, ctree, ccfg, cpc, cdirs, cfiles, cdry, conly, pastev>>

\* lines 291-293: a dry run returns after the listing
CleanDryRun ==
    /\ cpc = "listed" /\ cdry
    /\ cpc' = "idle" /\ ccalls' = ccalls + 1
    /\ cdirs' = {} /\ cfiles' = {}
    /\ UNCHANGED <<ctree0, ctree, ccfg, cdry, conly, pastev>>

\* lines 295-301: the listed directories and files are removed
CleanDelete ==
    /\ cpc = "listed" /\ ~cdry
    /\ ctree' = ctree \ Deleted(ctree, cdirs, cfiles)
    /\ cpc' = "idle" /\ ccalls' = ccalls + 1
    /\ cdirs' = {} /\ cfiles' = {}
    /\ UNCHANGED <<ctree0, ccfg, cdry, conly, pastev>>

(***************************************************************************)
(* The runs that are checked.                                              *)
(***************************************************************************)
PathA == <<97, Dot, 98>>                  \* a.b
PathB == <<97, Slash, 99, Dot, 100>>      \* a/c.d
PathC == <<98, Dot, 99>>                  \* b.c
Paths == {PathA, PathB, PathC}

\* a text of k lines
TextOfLines(k) == [i \in 1..(2 * k) |-> IF i % 2 = 1 THEN "a" ELSE LF]

\* the files of the several-file runs: texts of 1..MaxFileLines lines, a
\* large text, a file with a NUL byte and a file that cannot be read
FileMenu ==
    {[bytes |-> TextOfLines(k), readable |-> TRUE] :
        k \in (1..MaxFileLines) \cup {BigFileLines}}
        \cup {[bytes |-> <<"a", NUL, LF>>, readable |-> TRUE],
              [bytes |-> <<"a", LF>>, readable |-> FALSE]}

Trees(P, menu) == UNION {[S -> menu] : S \in SUBSET P}

NoGlobs ==
    [filename_search |-> FALSE, include |-> <<>>, exclude |-> <<>>,
     only_globs |-> <<>>, skip_globs |-> <<>>, exclude_dirs |-> <<>>,
     exclude_files |-> <<>>]

\* cfg: the selection part g, then list_only, out_dir absolute, allow_binary,
\* max_lines, target_files, soft_overflow, force_single_file, blank_lines,
\* allow_split and split_chunk_lines
Config(g, lo, oa, ab, ml, tf, so, fs, bp, sp, sc) ==
    [filename_search |-> g.filename_search, include |-> g.include,
     exclude |-> g.exclude, only_globs |-> g.only_globs,
     skip_globs |-> g.skip_globs, exclude_dirs |-> g.exclude_dirs,
     exclude_files |-> g.exclude_files,
     list_only |-> lo, out_dir_abs |-> oa,
     allow_binary |-> ab, max_lines |-> ml,
     target_files |-> tf, soft_overflow |-> so,
     force_single_file |-> fs, blank_policy |-> bp,
     allow_split |-> sp, split_chunk_lines |-> sc]

\* run_paste about to start on an output directory that does not exist
PasteStart ==
    /\ pc = "start" /\ run = 1 /\ prev = <<>>
    /\ out = NoOutput
    /\ Locals0

\* the names of the project trees that are cleaned
N_pkg == <<112, 107, 103>>    \* pkg
N_pycache == <<95, 95, 112, 121, 99, 97, 99, 104, 101, 95, 95>>    \* __pycache__
N_m_pyc == <<109, 46, 112, 121, 99>>    \* m.pyc
N_venv == <<46, 118, 101, 110, 118>>    \* .venv
N_a_tmp == <<97, 46, 116, 109, 112>>    \* a.tmp
N_myenv == <<109, 121, 101, 110, 118>>    \* myenv
N_build == <<98, 117, 105, 108, 100>>    \* build
N_env == <<101, 110, 118>>    \* env
N_x_py == <<120, 46, 112, 121>>    \* x.py

\* **/*.tmp and **/pkg/**
G_any_tmp == <<42, 42, 47, 42, 46, 116, 109, 112>>
G_pkg_tree == <<42, 42, 47, 112, 107, 103, 47, 42, 42>>

\* clean at rest, for the runs of the paste engine
CleanIdle ==
    /\ ctree0 = {} /\ ctree = {}
    /\ ccfg = CleanConfig(FALSE, {}, <<>>, <<>>, FALSE)
    /\ cpc = "idle" /\ cdirs = {} /\ cfiles = {}
    /\ cdry = TRUE /\ conly = {} /\ ccalls = 0

\* the targets the test of clean switches on (test_clean_temp.py, 27-38)
TestTargets ==
    {"pycache", "pytest_cache", "mypy_cache", "ruff_cache", "coverage",
     "build", "dist", "editor", "ds_store", "thumbs_db"}

CleanConfigs ==
    {CleanConfig(TRUE, TestTargets, eg, xd, av) :
        eg \in {<<>>, <<G_any_tmp>>}, xd \in {<<>>, <<N_pkg>>},
        av \in BOOLEAN}
        \cup {CleanConfig(FALSE, TestTargets, <<>>, <<>>, FALSE)}

CNode(path, isdir) == [path |-> path, dir |-> isdir]

\* the nodes a project tree is made of: a package with its __pycache__,
\* an environment .venv, an environment myenv, a build directory with an
\* environment in it, and a temporary file
CleanNodes ==
    {CNode(<<N_pkg>>, TRUE), CNode(<<N_pkg, N_pycache>>, TRUE),
     CNode(<<N_pkg, N_pycache, N_m_pyc>>, FALSE),
     CNode(<<N_venv>>, TRUE), CNode(<<N_venv, PyvenvCfg>>, FALSE),
     CNode(<<N_venv, N_pycache>>, TRUE), CNode(<<N_venv, N_a_tmp>>, FALSE),
     CNode(<<N_myenv>>, TRUE), CNode(<<N_myenv, PyvenvCfg>>, FALSE),
     CNode(<<N_myenv, N_pycache>>, TRUE),
     CNode(<<N_build>>, TRUE), CNode(<<N_build, N_env>>, TRUE),
     CNode(<<N_build, N_env, N_x_py>>, FALSE),
     CNode(<<N_a_tmp>>, FALSE)}

\* the trees: every node but a top one has its directory
CleanTrees ==
    {t \in SUBSET CleanNodes :
        \A n \in t : Len(n.path) > 1 => CNode(Parent(n.path), TRUE) \in t}

\* the values of the argument only
Onlys == {{}, {"pycache"}}

\* the paste engine at rest, for the runs of clean
PasteIdle ==
    /\ PasteStart
    /\ root = "dir" /\ tree = <<>>
    /\ cfg = Config(NoGlobs, TRUE, FALSE, FALSE, 0, 0, 0, FALSE, "keep", FALSE, 0)

\* up to MaxCalls calls of run_clean on a tree, dry or not
InitClean ==
    /\ PasteIdle
    /\ ctree0 \in CleanTrees /\ ctree = ctree0
    /\ ccfg \in CleanConfigs
    /\ cpc = "idle" /\ cdirs = {} /\ cfiles = {}
    /\ cdry = TRUE /\ conly = {} /\ ccalls = 0

NextClean ==
    \/ \E only \in Onlys, dry \in BOOLEAN : CleanGather(only, {}, dry)
    \/ CleanDisabled
    \/ CleanDryRun
    \/ CleanDelete

SpecClean == InitClean /\ [][NextClean]_vars

InitRun ==
    /\ PasteStart
    /\ CleanIdle

\* several files of a few lines each; every packing option varies
PackConfigs ==
    {Config(NoGlobs, lo, FALSE, ab, ml, tf, so, fs, "keep", sp, 1) :
        lo \in BOOLEAN, ab \in BOOLEAN, ml \in {0, 11, 21}, tf \in {0, 2},
        so \in {-1, 0, 1}, fs \in BOOLEAN, sp \in BOOLEAN}

\* runs on a root that is no directory
BadRootConfigs ==
    {Config(NoGlobs, lo, oa, FALSE, 22, 0, 0, FALSE, "keep", FALSE, 0) :
        lo \in BOOLEAN, oa \in BOOLEAN}

Init ==
    /\ InitRun
    /\ \/ /\ root = "dir"
          /\ tree \in Trees(Paths, FileMenu)
          /\ cfg \in PackConfigs
       \/ /\ root \in {"missing", "file"}
          /\ tree = <<>>
          /\ cfg \in BadRootConfigs

Next == RunStep

Spec == Init /\ [][Next]_vars

\* one file of any content up to MaxLen bytes; the policy and the split vary
TextFiles == {[bytes |-> b, readable |-> TRUE] : b \in SeqsUpTo(Byte, MaxLen)}

TextConfigs ==
    {Config(NoGlobs, FALSE, FALSE, ab, 4000, 0, 0, FALSE, bp, sp, sc) :
        ab \in BOOLEAN, bp \in {"keep", "collapse", "drop"},
        sp \in BOOLEAN, sc \in {0, 1, 2}}

InitText ==
    /\ InitRun
    /\ root = "dir"
    /\ tree \in [{PathA} -> TextFiles]
    /\ cfg \in TextConfigs

NextText ==
    \/ GatherFiles \/ MkOutDir
    \/ SkipBinary \/ RenderSplit \/ RenderWhole
    \/ SortBlocks \/ StartPack
    \/ PackPlace \/ PackNew \/ PackDone
    \/ WriteBucket \/ WriteIndex \/ Summary

SpecText == InitText /\ [][NextText]_vars

\* two runs in a row, the output directory cleared in between
TwiceConfigs ==
    {Config(NoGlobs, lo, FALSE, ab, 22, tf, 0, fs, "keep", sp, 1) :
        lo \in BOOLEAN, ab \in BOOLEAN, tf \in {0, 2}, fs \in BOOLEAN,
        sp \in BOOLEAN}

InitTwice ==
    /\ InitRun
    /\ \/ /\ root = "dir"
          /\ tree \in Trees(Paths, FileMenu)
          /\ cfg \in TwiceConfigs
       \/ /\ root \in {"missing", "file"}
          /\ tree = <<>>
          /\ cfg \in BadRootConfigs

NextTwice == RunStep \/ RunAgainCleared

SpecTwice == InitTwice /\ [][NextTwice]_vars

\* the scenario of three text files of 1500, 1000 and 400 lines with
\* max_lines = 2000, soft_overflow = 0, no split and no target_files; which
\* path holds which file varies
ScenarioTrees ==
    {t \in [Paths -> {[bytes |-> TextOfLines(k), readable |-> TRUE] :
                         k \in {1500, 1000, 400}}] :
        \A p, q \in Paths : p # q => t[p] # t[q]}

ScenarioConfigs ==
    {Config(NoGlobs, lo, oa, ab, 2000, 0, 0, FALSE, "keep", FALSE, 0) :
        lo \in BOOLEAN, oa \in BOOLEAN, ab \in BOOLEAN}

InitScenario ==
    /\ InitRun
    /\ root = "dir"
    /\ tree \in ScenarioTrees
    /\ cfg \in ScenarioConfigs

NextScenario ==
    \/ GatherFiles \/ ListOnly \/ MkOutDir
    \/ RenderWhole \/ SortBlocks \/ StartPack
    \/ PackPlace \/ PackNew \/ PackDone
    \/ WriteBucket \/ WriteIndex \/ Summary

SpecScenario == InitScenario /\ [][NextScenario]_vars

\* the configurations of the runs into an output directory that is not
\* cleared: out_dir is absolute and outside the project root
StaleConfigs ==
    {Config(NoGlobs, lo, TRUE, FALSE, ml, 0, 0, fs, "keep", sp, 1) :
        lo \in BOOLEAN, ml \in {11, 21}, fs \in BOOLEAN, sp \in BOOLEAN}

\* the caller runs the engine again on the same tree, with any
\* configuration, without clearing the output directory
RunAgainUncleared ==
    /\ pc = "done" /\ run = 1
    /\ prev' = <<[out |-> out, stdout |-> stdout]>>
    /\ cfg' \in StaleConfigs
    /\ run' = 2
    /\ pc' = "start"
    /\ files' = <<>> /\ fi' = 1 /\ items' = <<>> /\ total_item_lines' = 0
    /\ capacity' = 0 /\ pi' = 1 /\ buckets' = <<>> /\ used' = <<>> /\ wi' = 1
    /\ written' = <<>> /\ index_sections' = <<>> /\ stdout' = <<>>
    /\ UNCHANGED <<root, tree, out, cleanv>>

\* two runs in a row into the same output directory, not cleared in between
StaleFiles ==
    {[bytes |-> TextOfLines(k), readable |-> TRUE] : k \in 1..MaxFileLines}

InitStale ==
    /\ InitRun
    /\ root = "dir"
    /\ tree \in Trees(Paths, StaleFiles)
    /\ cfg \in StaleConfigs

NextStale ==
    \/ GatherFiles \/ ListOnly \/ MkOutDir
    \/ RenderSplit \/ RenderWhole
    \/ SortBlocks \/ ForceSingle \/ StartPack
    \/ PackOversized \/ PackPlace \/ PackNew \/ PackDone
    \/ WriteBucket \/ WriteIndex \/ Summary
    \/ RunAgainUncleared

SpecStale == InitStale /\ [][NextStale]_vars

\* files of up to MaxFileLines + 2 lines that are cut into chunks of up to
\* two lines; the paste files have room for one, two or three blocks
SplitFiles ==
    {[bytes |-> TextOfLines(k), readable |-> TRUE] :
        k \in 1..(MaxFileLines + 2)}

SplitConfigs ==
    {Config(NoGlobs, FALSE, FALSE, FALSE, ml, 0, 0, FALSE, "keep", sp, sc) :
        ml \in {11, 21, 32}, sp \in BOOLEAN, sc \in {1, 2}}

InitSplit ==
    /\ InitRun
    /\ root = "dir"
    /\ tree \in Trees(Paths, SplitFiles)
    /\ cfg \in SplitConfigs

NextSplit ==
    \/ GatherFiles \/ MkOutDir
    \/ RenderSplit \/ RenderWhole
    \/ SortBlocks \/ StartPack
    \/ PackOversized \/ PackPlace \/ PackNew \/ PackDone
    \/ WriteBucket \/ WriteIndex \/ Summary

SpecSplit == InitSplit /\ [][NextSplit]_vars

\* the trees of the selection runs: three or four files, with a file name
\* that stands at the root and at two depths next to the files of Paths
PathD == <<99, Dot, 100>>                                 \* c.d
PathE == <<98, Slash, 97, Slash, 99, Dot, 100>>           \* b/a/c.d
SelectPaths == Paths \cup {PathD, PathE}

SelectTrees ==
    UNION {[S -> {[bytes |-> TextOfLines(1), readable |-> TRUE]}] :
              S \in {T \in SUBSET SelectPaths : Cardinality(T) \in {3, 4}}}

\* the pattern lists of the selection runs: none, a bare file or directory
\* name, a fixed path and patterns with wildcards
SelectGlobs ==
    [filename_search : BOOLEAN,
     include : {<<>>, <<PathD>>,
                <<<<Star, Star, Slash, Star, Dot, 100>>,      \* **/*.d
                  <<97, Slash, Star>>>>},                     \* a/*
     exclude : {<<>>, <<PathD>>, <<<<97, Slash, Star>>>>},    \* c.d   a/*
     only_globs : {<<>>, <<PathD>>, <<<<Star, Dot, 100>>>>},  \* c.d   *.d
     skip_globs : {<<>>, <<PathD>>, <<<<98, Star>>>>},        \* c.d   b*
     exclude_dirs : {<<>>, <<<<97>>>>,                        \* a
                     <<<<98, Slash, 97>>>>,                   \* b/a
                     <<<<98, Star>>>>},                       \* b*
     exclude_files : {<<>>, <<PathD>>, <<<<Star, Dot, 98>>>>}]    \* c.d  *.b

SelectConfigs ==
    {Config(g, TRUE, FALSE, FALSE, 4000, 0, 0, FALSE, "keep", FALSE, 0) :
        g \in SelectGlobs}

InitSelect ==
    /\ InitRun
    /\ root = "dir"
    /\ tree \in SelectTrees
    /\ cfg \in SelectConfigs

NextSelect == GatherFiles \/ ListOnly

SpecSelect == InitSelect /\ [][NextSelect]_vars

(***************************************************************************)
(* Properties.                                                             *)
(***************************************************************************)
Packed == pc \in {"pack", "write", "summary", "done"} /\ ~cfg.force_single_file
AfterPack == pc \in {"write", "summary", "done"}
BucketTotal(b) == SumSeq([i \in 1..Len(b) |-> b[i].lines])

TextAt(rel) == PolicyText(_read_text(tree[rel]), cfg.blank_policy)

ChunkOf(rendered) == HeaderHits(rendered, "CHUNK")[1].val
PathOf(rendered) == HeaderHits(rendered, "PATH")[1].val
ShaOf(rendered) == HeaderHits(rendered, "SHA256")[1].val

\* the code of the blocks of a path, by chunk number
CodeInChunkOrder(rel) ==
    LET bs == SelectSeq(items, LAMBDA it : it.rel_path = rel)
    IN  [ci \in 1..Len(bs) |->
            (CHOOSE it \in Range(bs) : ChunkOf(it.rendered)[1] = ci).rendered.code]

\* the blocks written to the paste files
WrittenBlocks == UNION {Range(out.paste[n]) : n \in DOMAIN out.paste}

\* C2: the chunks of a split file, concatenated in chunk order, are the
\* post-policy text of the file, whatever line separators it contains
C2_SplitRoundTrip ==
    \A i \in 1..Len(items) :
        IsSplit(TextAt(items[i].rel_path), cfg) =>
            Flatten(CodeInChunkOrder(items[i].rel_path))
                = TextAt(items[i].rel_path)

\* C3: the SHA256 header field of every written block is the digest of the
\* bytes between its code markers, and the code of an unsplit block is the
\* post-policy text of its file
C3_ShaOfCode ==
    \A b \in WrittenBlocks :
        /\ ShaOf(b) = <<"sha256", b.code>>
        /\ ChunkOf(b) = <<1, 1>> => b.code = TextAt(PathOf(b))

\* a finished run that wrote the chunks of a split file whose policy
\* changed its text
C3_Witness ==
    /\ pc = "done"
    /\ \E b \in WrittenBlocks :
          /\ ChunkOf(b)[2] >= 2
          /\ TextAt(PathOf(b)) # _read_text(tree[PathOf(b)])

\* C4: a second run on the same tree and configuration, the output
\* directory cleared in between, leaves the same output files with the same
\* content and prints the same
C4_SameOutputTwice ==
    (pc \in {"done", "raised"} /\ run = 2) =>
        /\ pc = "done"
        /\ out = prev[1].out
        /\ stdout = prev[1].stdout

\* a second run that wrote two paste files from several candidates
C4_Witness ==
    /\ pc = "done" /\ run = 2
    /\ Len(files) >= 3
    /\ Cardinality(DOMAIN out.paste) >= 2
    /\ out.index # <<>>

\* the paths that appear in the output: blocks of paste files and index rows
PathsInPaste == {PathOf(b) : b \in WrittenBlocks}
PathsInIndex ==
    IF out.index = <<>> THEN {}
    ELSE UNION {{out.index[1].sections[n][j][1][1] :
                    j \in 1..Len(out.index[1].sections[n])} :
                n \in 1..Len(out.index[1].sections)}

HasNulInWindow(f) ==
    \E i \in 1..Len(f.bytes) : i <= 4096 /\ f.bytes[i] = NUL

\* C5: with allow_binary off, a file with a NUL byte in its first 4096
\* bytes yields no block, is in no paste file and in no row of the index
C5_BinaryExcluded ==
    ~cfg.allow_binary =>
        \A p \in DOMAIN tree :
            HasNulInWindow(tree[p]) =>
                /\ \A i \in 1..Len(items) : items[i].rel_path # p
                /\ p \notin PathsInPaste
                /\ p \notin PathsInIndex

\* a finished run that selected a file with a NUL byte and wrote another
C5_Witness ==
    /\ pc = "done" /\ ~cfg.allow_binary /\ ~cfg.list_only
    /\ \E i \in 1..Len(files) :
          tree[files[i]].readable /\ HasNulInWindow(tree[files[i]])
    /\ PathsInIndex # {}

\* the candidates of the run that produced no block
SkippedFiles == {p \in Range(files) : \A i \in 1..Len(items) : items[i].rel_path # p}

\* the labels of the lines run_paste prints
PrintedLabels ==
    {"Prosjekt", "Antall filer", "fil", "skrev", "Totalt filer",
     "Totalt linjer", "Antall paste-filer", "Index"}

\* C6: the summary of a finished run reports the number of skipped files
C6_SkippedReported ==
    (pc = "done" /\ ~cfg.list_only) =>
        \E i \in 1..Len(stdout) :
            /\ stdout[i][1] \notin PrintedLabels
            /\ stdout[i][2] = Cardinality(SkippedFiles)

StrictlySorted(s) == \A i \in 1..(Len(s) - 1) : StrLess(s[i], s[i + 1])

\* C7: a list_only run leaves no output directory, paste file or index, and
\* prints the selected files, each once, in increasing order of path
C7_ListOnlyWritesNothing ==
    cfg.list_only =>
        /\ out = NoOutput
        /\ pc \in {"start", "gathered", "done"}
        /\ pc = "done" =>
              /\ stdout = <<<<"Prosjekt">>, <<"Antall filer", Len(files)>>>> \o
                          [i \in 1..Len(files) |-> <<"fil", files[i]>>]
              /\ StrictlySorted(files)
              /\ Range(files) = (IF root = "dir" THEN DOMAIN tree ELSE {})

\* a finished list_only run over three files
C7_Witness ==
    /\ cfg.list_only /\ pc = "done"
    /\ Len(stdout) = 5

\* C8: with a project root that is no directory the run stops with an
\* error and writes nothing
C8_BadRootAborts ==
    [][root # "dir" =>
          /\ out' = NoOutput
          /\ pc' \in {"start", "gathered", "raised"}]_vars

\* C9: a file that cannot be read never ends the run
C9_ReadFailureCaught ==
    ~(pc = "raised" /\ fi <= Len(files) /\ ~tree[files[fi]].readable)

\* is t a rearrangement of s?
SameBlocks(s, t) ==
    /\ Len(s) = Len(t)
    /\ \A x \in Range(s) \cup Range(t) :
          Cardinality({i \in 1..Len(s) : s[i] = x})
              = Cardinality({i \in 1..Len(t) : t[i] = x})

\* C10: after packing every block is in exactly one bucket, no bucket is
\* empty, and once the index is written every block has its one row, in
\* the section of the paste file that holds it
C10_EveryBlockOnce ==
    /\ AfterPack =>
          /\ SameBlocks(Flatten(buckets), items)
          /\ \A n \in 1..Len(buckets) : buckets[n] # <<>>
    /\ (pc \in {"summary", "done"} /\ ~cfg.list_only) =>
          /\ DOMAIN out.paste = 1..Len(buckets)
          /\ Len(out.index[1].sections) = Len(buckets)
          /\ out.index[1].total_entries = Len(items)
          /\ \A n \in 1..Len(buckets) :
                /\ Len(out.paste[n]) = Len(buckets[n])
                /\ Len(out.index[1].sections[n]) = Len(buckets[n])
                /\ \A j \in 1..Len(buckets[n]) :
                      /\ out.paste[n][j] = buckets[n][j].rendered
                      /\ out.index[1].sections[n][j] =
                             <<<<PathOf(buckets[n][j].rendered),
                                 ChunkOf(buckets[n][j].rendered)>>,
                               HeaderHits(buckets[n][j].rendered, "LINES")[1].val>>

\* finished runs, one packed and one forced into a single file, of a split
\* file and other files over several blocks
C10_Witness ==
    /\ pc = "done" /\ ~cfg.list_only
    /\ Len(items) >= 4
    /\ \E i \in 1..Len(items) : ChunkOf(items[i].rendered)[2] >= 2
    /\ \E i \in 1..Len(items) : ChunkOf(items[i].rendered)[2] = 1
    /\ (cfg.force_single_file \/ Len(buckets) >= 2)

\* the LINES header field of a written block: the fourth header line
LinesField(b) == b.header[4].val

\* C11: for every paste file, each row of its section of the index carries
\* the LINES field of the block at the same place in the file, which is the
\* number of lines of that block's code, and the rows of the section sum to
\* the sum of the LINES fields of the file's blocks
C11_IndexLinesSum ==
    (pc \in {"summary", "done"} /\ ~cfg.list_only) =>
        \A n \in DOMAIN out.paste :
            LET sec == out.index[1].sections[n]
                blocks == out.paste[n]
            IN  /\ Len(sec) = Len(blocks)
                /\ \A j \in 1..Len(blocks) :
                      /\ blocks[j].header[4].key = "LINES"
                      /\ sec[j][2] = LinesField(blocks[j])
                      /\ sec[j][2] = CountLF(blocks[j].code)
                /\ SumSeq([j \in 1..Len(sec) |-> sec[j][2]])
                      = SumSeq([j \in 1..Len(blocks) |-> LinesField(blocks[j])])

\* a finished run with a paste file of several blocks, one of them a chunk
\* whose LINES field differs from its TOTAL_LINES field
C11_Witness ==
    /\ pc = "done" /\ out.index # <<>>
    /\ \E n \in DOMAIN out.paste :
          /\ Len(out.paste[n]) >= 2
          /\ \E j \in 1..Len(out.paste[n]) :
                out.paste[n][j].header[3].val # LinesField(out.paste[n][j])

\* the candidates the render loop passes over: binary without allow_binary,
\* or not readable
Skipped(p) ==
    \/ ~cfg.allow_binary /\ HasNulInWindow(tree[p])
    \/ ~tree[p].readable

\* C12: when the run has ended, every candidate that is not skipped has at
\* least one block
C12_CandidateYieldsBlock ==
    (pc \in {"capacity", "pack", "write", "summary", "done", "raised"}
        /\ ~cfg.list_only) =>
        \A p \in Range(files) :
            Skipped(p) \/ \E i \in 1..Len(items) : items[i].rel_path = p

\* C13: the paste files of a run are numbered 1..k for its k buckets, the
\* ones written so far while it writes, none of them is empty, the log of
\* written files names them in order, and paste file n holds the rendered
\* blocks of bucket n in bucket order
C13_PasteFilesContiguous ==
    /\ pc = "write" => DOMAIN out.paste = 1..(wi - 1)
    /\ (pc \in {"summary", "done"} /\ ~cfg.list_only) =>
          /\ DOMAIN out.paste = 1..Len(buckets)
          /\ [i \in 1..Len(written) |-> written[i][1]]
                 = [i \in 1..Len(buckets) |-> i]
    /\ \A n \in DOMAIN out.paste :
          /\ out.paste[n] # <<>>
          /\ out.paste[n] = [j \in 1..Len(buckets[n]) |-> buckets[n][j].rendered]

\* a finished run of three paste files, one of them of two different blocks
C13_Witness ==
    /\ pc = "done"
    /\ DOMAIN out.paste = 1..3
    /\ \E n \in 1..3 :
          /\ Len(out.paste[n]) = 2
          /\ out.paste[n][1] # out.paste[n][2]

\* C20: with force_single_file a finished run has written exactly one paste
\* file, holding every block, when there is a block, and no paste file but
\* the index when there is none, whatever max_lines, target_files and
\* soft_overflow are
C20_ForceSingleFile ==
    (cfg.force_single_file /\ pc \in {"summary", "done"} /\ ~cfg.list_only) =>
        /\ out.index # <<>>
        /\ IF items # <<>>
           THEN /\ DOMAIN out.paste = {1}
                /\ Len(out.paste[1]) = Len(items)
                /\ out.index[1].total_paste_files = 1
           ELSE /\ DOMAIN out.paste = {}
                /\ out.index[1].total_paste_files = 0

\* a finished forced run whose blocks are above max_lines + soft_overflow
\* together and above the share of target_files
C20_Witness ==
    /\ cfg.force_single_file /\ pc = "done" /\ ~cfg.list_only
    /\ Len(items) >= 3
    /\ cfg.target_files > 0
    /\ total_item_lines > cfg.max_lines + cfg.soft_overflow

\* a finished forced run without any block
C20_WitnessNoBlock ==
    /\ cfg.force_single_file /\ pc = "done" /\ ~cfg.list_only
    /\ files # <<>> /\ items = <<>>

\* C17: the packer takes the blocks in descending order of line count, and
\* at every moment of the packing and after it, for buckets i < j, the
\* total of bucket i plus the first block of bucket j is above capacity +
\* soft_overflow: bucket j was opened because bucket i had no room
C17_FirstFit ==
    Packed =>
        /\ \A i, j \in 1..Len(items) :
              i < j => items[i].lines >= items[j].lines
        /\ \A i, j \in 1..Len(buckets) :
              i < j => BucketTotal(buckets[i]) + buckets[j][1].lines
                          > capacity + cfg.soft_overflow

\* a finished packing where a block went back into an earlier bucket after
\* a later bucket had been opened by a larger block
C17_Witness ==
    /\ Packed /\ pc = "done"
    /\ \E i, j \in 1..Len(buckets) :
          /\ i < j
          /\ Len(buckets[i]) >= 2
          /\ buckets[i][Len(buckets[i])].lines < buckets[j][1].lines

\* T of the claim: the sum of the rendered line counts of all blocks
TotalRendered == SumSeq([i \in 1..Len(items) |-> items[i].lines])

\* does the packing behave as a first-fit packing with this bound?  No
\* bucket of several blocks is above it, and no bucket was opened for a
\* block that an earlier bucket had room for
PacksWithBound(bound) ==
    /\ \A n \in 1..Len(buckets) :
          Len(buckets[n]) >= 2 => BucketTotal(buckets[n]) <= bound
    /\ \A i, j \in 1..Len(buckets) :
          i < j => BucketTotal(buckets[i]) + buckets[j][1].lines > bound

C19_AtMostTargetFiles ==
    (pc = "done" /\ ~cfg.list_only /\ ~cfg.force_single_file
        /\ cfg.target_files > 0) =>
        Cardinality(DOMAIN out.paste) <= cfg.target_files

\* the buckets by the LINES fields of their blocks
BucketsByLines ==
    [n \in 1..Len(buckets) |->
        [j \in 1..Len(buckets[n]) |-> LinesField(buckets[n][j].rendered)]]

\* C16 as stated: the scenario packs bucket 1 = [1500] and bucket 2 =
\* [1000, 400]
C16_ScenarioAsStated ==
    (AfterPack /\ ~cfg.list_only) =>
        BucketsByLines = <<<<1500>>, <<1000, 400>>>>

\* C16 amended: the scenario packs bucket 1 = [1500, 400] and bucket 2 =
\* [1000], and the finished run has written two paste files
C16_Scenario ==
    (AfterPack /\ ~cfg.list_only) =>
        /\ BucketsByLines = <<<<1500, 400>>, <<1000>>>>
        /\ pc = "done" => DOMAIN out.paste = 1..2

\* the finished scenario: paste_01 of 1509 + 409 lines, paste_02 of 1009
C16_Witness ==
    /\ pc = "done"
    /\ written = <<<<1, 1918>>, <<2, 1009>>>>
    /\ cfg.max_lines = 2000 /\ cfg.soft_overflow = 0 /\ cfg.target_files = 0

\* C14: no step of a run removes a paste file, the index or the output
\* directory; a step changes a paste file only by writing the bucket of its
\* number, and the index only by writing it at the end of the run; and
\* when a second run of k buckets has finished after a run of m > k paste
\* files, paste files k+1..m are as the first run left them while the index
\* lists paste files 1..k only
C14_StaleOutputKept ==
    [][/\ out.exists => out'.exists
       /\ out.index # <<>> => out'.index # <<>>
       /\ out'.index # out.index => pc = "write" /\ pc' = "summary"
       /\ \A n \in DOMAIN out.paste :
             /\ n \in DOMAIN out'.paste
             /\ out'.paste[n] # out.paste[n] => pc = "write" /\ n = wi
       /\ \A n \in DOMAIN out'.paste \ DOMAIN out.paste :
             pc = "write" /\ n = wi
       /\ (run' = 2 /\ pc' = "done" /\ ~cfg'.list_only) =>
             LET k == Len(buckets')
                 m == Cardinality(DOMAIN prev'[1].out.paste)
             IN  /\ \A n \in (k + 1)..m :
                       /\ n \in DOMAIN out'.paste
                       /\ out'.paste[n] = prev'[1].out.paste[n]
                 /\ out'.index[1].generated = [i \in 1..k |-> i]
                 /\ out'.index[1].total_paste_files = k
                 /\ Len(out'.index[1].sections) = k
      ]_vars

\* a second run of fewer buckets has finished: it wrote paste_01 anew and
\* a paste file of the first run is left behind
C14_Witness ==
    /\ run = 2 /\ pc = "done" /\ ~cfg.list_only
    /\ Len(buckets) >= 1
    /\ Cardinality(DOMAIN out.paste) > Len(buckets)
    /\ out.paste[1] # prev[1].out.paste[1]
    /\ out.index # prev[1].out.index

\* the nodes of a tree that lie inside a protected environment: below a
\* directory of a protected name, or below a directory that holds pyvenv.cfg
InProtectedEnv(t, path) ==
    \E k \in 0..(Len(path) - 1) :
        \/ k >= 1 /\ path[k] \in _PROTECTED_ENV_DIRS
        \/ (SubSeq(path, 1, k) \o <<PyvenvCfg>>) \in FilesOf(t)

\* C15: with allow_venv_clean off no step of a call of run_clean removes a
\* node that lies inside a protected environment, and the removal of a
\* call with dry_run off and without only removes every directory named as
\* an enabled target that lies outside the environments and is not excluded
C15_VenvUntouched ==
    [][~ccfg.allow_venv_clean =>
          /\ \A n \in ctree : InProtectedEnv(ctree, n.path) => n \in ctree'
          /\ (cpc = "listed" /\ ~cdry /\ conly = {}) =>
                \A d \in DirsOf(ctree) :
                    (/\ Last(d) \in OnDirNames(ccfg, {}, {})
                     /\ ~InProtectedEnv(ctree, d)
                     /\ ~_match_any_name(d, _PROTECTED_ENV_DIRS)
                     /\ ~_is_inside_venv(ctree, d)
                     /\ ~should_skip(ctree, SkipGlobs(ccfg), d))
                        => d \notin DirsOf(ctree')
      ]_vars

\* the blocks rendered for a path, in the order they stand in items
BlocksOf(rel) == SelectSeq(items, LAMBDA it : it.rel_path = rel)

\* C21: a rendered file whose post-policy line count L exceeds
\* split_chunk_lines = s > 0 under allow_split has n = ceil(L / s) blocks,
\* one for each CHUNK i/n with i in 1..n, chunk i < n of s lines and chunk n
\* of L - (n-1)*s lines; every other rendered file has the one block
\* CHUNK 1/1
C21_ChunkCount ==
    \A rel \in DOMAIN tree :
        LET bs == BlocksOf(rel)
            L == CountLF(TextAt(rel))
            s == cfg.split_chunk_lines
        IN  bs # <<>> =>
                IF cfg.allow_split /\ s > 0 /\ L > s
                THEN LET n == CeilDiv(L, s)
                     IN  /\ Len(bs) = n
                         /\ \A i \in 1..n :
                               \E k \in 1..Len(bs) :
                                   /\ ChunkOf(bs[k].rendered) = <<i, n>>
                                   /\ CountLF(bs[k].rendered.code) =
                                          IF i < n THEN s ELSE L - (n - 1) * s
                ELSE /\ Len(bs) = 1
                     /\ ChunkOf(bs[1].rendered) = <<1, 1>>

\* the TOTAL_LINES header field of a block: the third header line
TotalLinesField(b) == b.header[3].val

\* C22: every block of a rendered file carries the post-policy line count
\* of the file as TOTAL_LINES, the LINES fields of the blocks of the file
\* sum to it, and an unsplit block has LINES equal to TOTAL_LINES
C22_LinesSumToTotal ==
    \A rel \in DOMAIN tree :
        LET bs == BlocksOf(rel)
        IN  bs # <<>> =>
                /\ \A k \in 1..Len(bs) :
                      /\ TotalLinesField(bs[k].rendered) = CountLF(TextAt(rel))
                      /\ ChunkOf(bs[k].rendered) = <<1, 1>> =>
                            LinesField(bs[k].rendered)
                                = TotalLinesField(bs[k].rendered)
                /\ SumSeq([k \in 1..Len(bs) |-> LinesField(bs[k].rendered)])
                       = CountLF(TextAt(rel))

\* the written blocks as a reader meets them: paste_01, paste_02, ... in
\* sequence, each file from top to bottom
ReadingOrder ==
    Flatten([n \in 1..Cardinality(DOMAIN out.paste) |-> out.paste[n]])

\* C23: in the written output chunk i of a file stands before chunk i+1 of
\* the same file
C23_ChunkOrderKept ==
    \A i, j \in 1..Len(ReadingOrder) :
        (/\ PathOf(ReadingOrder[i]) = PathOf(ReadingOrder[j])
         /\ ChunkOf(ReadingOrder[j])[1] = ChunkOf(ReadingOrder[i])[1] + 1)
            => i < j

\* the candidates: the files of the tree that an include pattern matches
IncludeGlobs ==
    _normalize_globs(_effective_include_list(cfg), cfg.filename_search)

Candidates ==
    {p \in DOMAIN tree :
        \E i \in 1..Len(IncludeGlobs) : GlobMatch(p, IncludeGlobs[i])}

Selected == pc # "start" /\ root = "dir"

\* the parent directory of a candidate matches a directory exclusion: a bare
\* name that is a component of the relative parent path, a fixed path that
\* contains the parent directory, or a pattern that matches the relative
\* parent directory path
ParentDirMatches(p) ==
    \/ \E i \in 1..Len(ParentParts(p)) :
          ParentParts(p)[i] \in Range(DirNames(cfg.exclude_dirs))
    \/ \E i \in 1..Len(DirBases(cfg.exclude_dirs)) :
          IsPrefix(DirBases(cfg.exclude_dirs)[i], ParentParts(p))
    \/ \E i \in 1..Len(DirGlobs(cfg.exclude_dirs)) :
          fnmatch(AsPosix(ParentParts(p)), DirGlobs(cfg.exclude_dirs)[i])

\* the test of the selector for a directory exclusion: the parent directory
\* matches, or a pattern among the entries matches the relative path
DirExcluded(p) ==
    \/ ParentDirMatches(p)
    \/ \E i \in 1..Len(DirGlobs(cfg.exclude_dirs)) :
          fnmatch(p, DirGlobs(cfg.exclude_dirs)[i])

\* the file name is a global file-exclusion name
FileNameExcluded(p) ==
    \E i \in 1..Len(cfg.exclude_files) :
        ~HasWild(cfg.exclude_files[i]) /\ Name(p) = cfg.exclude_files[i]

\* the relative path matches a global file-exclusion pattern
FilePatternExcluded(p) ==
    \E i \in 1..Len(cfg.exclude_files) :
        HasWild(cfg.exclude_files[i]) /\ fnmatch(p, cfg.exclude_files[i])

\* the patterns the selector matches against: the exclude list after
\* normalisation, the only and skip lists as they are configured
MatchesExclude(p) ==
    \E g \in Range(_normalize_globs(cfg.exclude, cfg.filename_search)) :
        fnmatch(p, g)
MatchesOnly(p) == \E g \in Range(cfg.only_globs) : fnmatch(p, g)
MatchesSkip(p) == \E g \in Range(cfg.skip_globs) : fnmatch(p, g)

Expanded(globs) == Range(_normalize_globs(globs, cfg.filename_search))

\* C25: under filename_search a bare name in only_globs or skip_globs acts
\* on the file of that name at the root and at any depth, as it does in
\* include and exclude: the selection is the one that the four expanded
\* lists give
C25_FourListsExpanded ==
    (Selected /\ cfg.filename_search) =>
        \A p \in DOMAIN tree :
            p \in Range(files) <=>
                /\ p \in Candidates
                /\ ~DirExcluded(p)
                /\ ~FileNameExcluded(p)
                /\ ~FilePatternExcluded(p)
                /\ ~\E g \in Expanded(cfg.exclude) : fnmatch(p, g)
                /\ cfg.only_globs # <<>> =>
                      \E g \in Expanded(cfg.only_globs) : fnmatch(p, g)
                /\ ~\E g \in Expanded(cfg.skip_globs) : fnmatch(p, g)

\* the candidate passes every filter that is not a directory exclusion
PassesFileFilters(p) ==
    /\ ~FileNameExcluded(p)
    /\ ~FilePatternExcluded(p)
    /\ ~MatchesExclude(p)
    /\ cfg.only_globs # <<>> => MatchesOnly(p)
    /\ ~MatchesSkip(p)

\* C26: a candidate that the other filters let pass is dropped exactly when
\* its parent directory matches a directory-exclusion entry, so never for
\* its own file name
C26_DroppedIffParentMatches ==
    Selected =>
        \A p \in Candidates :
            PassesFileFilters(p) =>
                (p \notin Range(files) <=> ParentDirMatches(p))

\* C27: the selected list is strictly increasing by relative path, so it is
\* sorted and holds no file twice, and it is the list that every order of
\* the directory listing of the same tree gives
C27_StrictlyIncreasing ==
    Selected =>
        /\ StrictlySorted(files)
        /\ \A listing \in Listings(DOMAIN tree) :
              files = _gather_files(cfg, listing)

\* a selection of two files or more under filename_search in which one
\* file is matched by the bare and by the any-depth form of an expanded name
C27_Witness ==
    /\ Selected /\ cfg.filename_search
    /\ Len(files) >= 2
    /\ \E p \in Range(files) :
          \E i, j \in 1..Len(IncludeGlobs) :
              /\ IncludeGlobs[j] = <<Star, Star, Slash>> \o IncludeGlobs[i]
              /\ GlobMatch(p, IncludeGlobs[i]) /\ GlobMatch(p, IncludeGlobs[j])

\* the lines between the code markers of the blocks of a path, the chunks
\* taken in chunk order
RenderedCodeLines(rel) == splitlines(Flatten(CodeInChunkOrder(rel)))

\* the lines of the file at a path as it is read
FileLines(rel) == splitlines(_read_text(tree[rel]))

\* C28: under blank_lines=drop the code rendered for a file holds no blank
\* line, and its lines are the non-blank lines of the file in their order;
\* files of blank lines only and empty files are no exception
C28_DropLeavesNoBlank ==
    cfg.blank_policy = "drop" =>
        \A rel \in DOMAIN tree :
            BlocksOf(rel) # <<>> =>
                /\ \A i \in 1..Len(RenderedCodeLines(rel)) :
                      ~IsBlank(RenderedCodeLines(rel)[i])
                /\ RenderedCodeLines(rel)
                       = SelectSeq(FileLines(rel), LAMBDA ln : ~IsBlank(ln))

\* the lengths of the runs of blank lines of a sequence of lines: before
\* the first non-blank line, between two non-blank lines, after the last
RECURSIVE BlankRuns(_, _)
BlankRuns(lines, n) ==
    IF lines = <<>> THEN <<n>>
    ELSE IF IsBlank(Head(lines)) THEN BlankRuns(Tail(lines), n + 1)
    ELSE <<n>> \o BlankRuns(Tail(lines), 0)

\* C29: under blank_lines=collapse the code rendered for a file never holds
\* two blank lines in a row, each run of blank lines of the file stands in
\* it as one blank line at most, and its non-blank lines are those of the
\* file, unchanged and in their order
C29_CollapseKeepsOneBlank ==
    cfg.blank_policy = "collapse" =>
        \A rel \in DOMAIN tree :
            BlocksOf(rel) # <<>> =>
                LET code == RenderedCodeLines(rel)
                IN  /\ \A i \in 1..(Len(code) - 1) :
                          ~(IsBlank(code[i]) /\ IsBlank(code[i + 1]))
                    /\ SelectSeq(code, LAMBDA ln : ~IsBlank(ln))
                           = SelectSeq(FileLines(rel), LAMBDA ln : ~IsBlank(ln))
                    /\ \A k \in 1..Len(BlankRuns(FileLines(rel), 0)) :
                          BlankRuns(FileLines(rel), 0)[k] >= 1 =>
                              BlankRuns(code, 0)[k] <= 1

\* a rendered file with a non-blank line and a run of two blank lines,
\* collapsed into one
C29_Witness ==
    /\ cfg.blank_policy = "collapse"
    /\ \E rel \in DOMAIN tree :
          /\ BlocksOf(rel) # <<>>
          /\ \E k \in 1..Len(BlankRuns(FileLines(rel), 0)) :
                /\ BlankRuns(FileLines(rel), 0)[k] >= 2
                /\ BlankRuns(RenderedCodeLines(rel), 0)[k] = 1
          /\ \E i \in 1..Len(FileLines(rel)) : ~IsBlank(FileLines(rel)[i])

\* the candidate files that produced output: the paths of the written blocks
FilesWithOutput == {PathOf(b) : b \in WrittenBlocks}

\* C30: when the run has ended, 'Totalt filer' of the index and of the
\* summary is the number of candidate files that produced output, a split
\* file counted once, and 'Antall paste-filer' of both is the number of
\* paste files written
C30_TotalsCountFiles ==
    (pc = "done" /\ ~cfg.list_only /\ out.index # <<>>) =>
        /\ out.index[1].total_entries = Cardinality(FilesWithOutput)
        /\ out.index[1].total_paste_files = Cardinality(DOMAIN out.paste)
        /\ \A i \in 1..Len(stdout) :
              /\ stdout[i][1] = "Totalt filer" =>
                    stdout[i][2] = Cardinality(FilesWithOutput)
              /\ stdout[i][1] = "Antall paste-filer" =>
                    stdout[i][2] = Cardinality(DOMAIN out.paste)

====
